---- MODULE Spec2Model ----
(***************************************************************************)
(* Point-in-time wallet reserves: the retry wrapper, the Bitcoin UTXO      *)
(* replay, the Solana signature search, the price oracles and the          *)
(* snapshot assemblers of src/btc.py, src/eth_alchemy.py and               *)
(* src/solana_alchemy.py, each as a state machine of its own:              *)
(*   SpecRetry  request_with_retry                  (src/btc.py)           *)
(*   SpecBtc    btc_balance_at_timestamp            (src/btc.py)           *)
(*   SpecSig    find_last_signature_before_ts       (src/solana_alchemy.py)*)
(*   SpecPrice  the three price oracles                                    *)
(*   SpecSnap   the three snapshot assemblers                              *)
(*   SpecTok    token_usd_value                     (src/solana_alchemy.py)*)
(*   SpecSpl    spl_balance_at_ts_via_last_tx       (src/solana_alchemy.py)*)
(* A subsystem that a specification does not run stays in its idle state.  *)
(***************************************************************************)
EXTENDS Integers, Sequences, FiniteSets, TLC

VARIABLES
    \* request_with_retry (src/btc.py:30-57)
    r_pc,        \* "idle" | "attempt" | "returned" | "raised" | "exhausted"
    attempt,     \* the loop variable of `for attempt in range(1, MAX_RETRIES + 1)`
    last_exc,    \* last_exc: the last retryable failure, NoExc before any
    r_ret,       \* the attempt whose response was returned, 0 while none
    r_err,       \* the exception that left the function, NoExc while none
    calls,       \* number of SESSION.request calls issued so far
    sleeps,      \* number of time.sleep calls made so far
    backoff,     \* argument of the last time.sleep, in 1/100 s (0 before any)
    script       \* what the server does at the 1st, 2nd, ... request of this call

retry_vars == <<r_pc, attempt, last_exc, r_ret, r_err, calls, sleeps, backoff, script>>

VARIABLES
    \* btc_balance_at_timestamp (src/btc.py:119-159)
    b_pc,        \* "idle" | "fetch" | "replay" | "done" | "failed"
    ts_cutoff,   \* the ts_cutoff argument
    all_txs,     \* all_txs: the transactions fetched so far, in page order
    last,        \* last: the cursor of the next page request, NoTxid for None
    pages,       \* iterations of `for _ in range(max_pages)` completed
    eligible,    \* eligible, after the sort
    utxos,       \* utxos: (txid, vout index) -> value
    b_ret,       \* the balance returned, None while none
    b_reqs       \* the page requests issued so far: path, answer, txids of the page

btc_vars == <<b_pc, ts_cutoff, all_txs, last, pages, eligible, utxos, b_ret, b_reqs>>

VARIABLES
    \* find_last_signature_before_ts (src/solana_alchemy.py:49-71)
    s_pc,        \* "idle" | "request" | "scan" | "returned" | "failed"
    ts_unix,     \* the ts_unix argument
    before,      \* before: the cursor of the next request, NoSig for None
    sigs,        \* sigs: the page being scanned
    s_ret,       \* the signature returned, NoSig for None
    history,     \* the address's signature history as the node holds it
    s_log        \* the `before` cursors of the requests the node has answered

sig_vars == <<s_pc, ts_unix, before, sigs, s_ret, history, s_log>>

VARIABLES
    \* one call of a price oracle (src/btc.py:79-94, src/eth_alchemy.py:115-144,
    \* src/solana_alchemy.py:211-238 and 321-323)
    p_pc,        \* "idle" | "call" | "done"
    p_variant,   \* "btc" | "eth" | "sol": the file whose oracle is called
    p_symbol,    \* the symbol argument
    p_resp,      \* what the Alchemy Prices API answers
    p_cg,        \* what coingecko_price_on_date_usd would return (None or a price)
    p_raw,       \* sol: what price_on_date_usd returned
    p_out        \* the oracle's result: a rate, None, or an exception

price_vars == <<p_pc, p_variant, p_symbol, p_resp, p_cg, p_raw, p_out>>

VARIABLES
    \* one snapshot: btc_snapshot_with_usd (src/btc.py:165-184),
    \* eth_snapshot_with_usd (src/eth_alchemy.py:150-218) or
    \* solana_wallet_value_on_date (src/solana_alchemy.py:244-342)
    n_pc,        \* the statement the snapshot is at, "idle" or "done"
    n_chain,     \* "btc" | "eth" | "sol"
    n_key,       \* eth: ETHERSCAN_KEY is set
    n_block,     \* eth: block, None before it is resolved
    n_reqs,      \* eth: the requests issued so far, each with its block argument
    n_amt,       \* per asset: the amount read (smallest units), None if none
    n_rate,      \* per asset: the rate the oracle gave (cents), None if none
    n_val,       \* per asset: amount * rate, None if not computed
    n_offer,     \* per asset: "yes"/"no" the price sources offered a price when
                 \* the oracle asked, "-" if it did not ask
    n_out,       \* "none" | "row" (the row or tuple was returned) | "error"
    n_err        \* which call raised: "-" | "balance" | "config" | "block" | "rpc" | "price"

snap_vars == <<n_pc, n_chain, n_key, n_block, n_reqs, n_amt, n_rate, n_val, n_offer,
               n_out, n_err>>

VARIABLES
    \* one call of token_usd_value (src/solana_alchemy.py:301-335), after
    \* mint_to_token_accounts (src/solana_alchemy.py:123-135, called at line 298)
    t_pc,           \* "idle" | "discover" | "start" | "loop" | "after" | "price" | "done"
    t_items,        \* what get_token_accounts_by_owner returned: pubkey and mint of each
    t_label,        \* the label argument; the mint argument is MintOf[t_label]
    m2tas,          \* m2tas: mint -> token account pubkeys
    token_accounts, \* token_accounts
    t_i,            \* accounts of `for ta in token_accounts` already visited
    total,          \* total
    found_any,      \* found_any
    t_bals,         \* what spl_balance_at_ts_via_last_tx returned, account by account
    t_px,           \* the price lookup's result, NotLooked while none was made
    t_ret,          \* the value returned, None while none
    t_err           \* an exception left the call

tok_vars == <<t_pc, t_items, t_label, m2tas, token_accounts, t_i, total, found_any,
              t_bals, t_px, t_ret, t_err>>

VARIABLES
    \* one call of spl_balance_at_ts_via_last_tx (src/solana_alchemy.py:138-175)
    x_pc,        \* "idle" | "call" | "done"
    x_sig,       \* what find_last_signature_before_ts returns: NoSig for None
    x_tx,        \* what getTransaction returns
    x_ret        \* the balance returned, None for None

spl_vars == <<x_pc, x_sig, x_tx, x_ret>>

vars == <<retry_vars, btc_vars, sig_vars, price_vars, snap_vars, tok_vars, spl_vars>>

\* What the actions of one subsystem leave alone.
not_retry == <<btc_vars, sig_vars, price_vars, snap_vars, tok_vars, spl_vars>>
not_btc == <<retry_vars, sig_vars, price_vars, snap_vars, tok_vars, spl_vars>>
not_sig == <<retry_vars, btc_vars, price_vars, snap_vars, tok_vars, spl_vars>>
not_price == <<retry_vars, btc_vars, sig_vars, snap_vars, tok_vars, spl_vars>>
not_snap == <<retry_vars, btc_vars, sig_vars, price_vars, tok_vars, spl_vars>>
not_tok == <<retry_vars, btc_vars, sig_vars, price_vars, snap_vars, spl_vars>>
not_spl == <<retry_vars, btc_vars, sig_vars, price_vars, snap_vars, tok_vars>>

(***************************************************************************)
(* Shared helpers.                                                         *)
(***************************************************************************)
\* Python's None where the model needs an integer-typed "absent" value.
None == -1

RECURSIVE Pow2(_)
Pow2(n) == IF n = 0 THEN 1 ELSE 2 * Pow2(n - 1)

(***************************************************************************)
(* request_with_retry                                                      *)
(***************************************************************************)
MAX_RETRIES == 5
\* BASE_BACKOFF_SECONDS = 0.8 and JITTER_SECONDS = 0.25, in 1/100 s.
BASE_BACKOFF_SECONDS == 80
JITTER_SECONDS == 25

\* The status codes `status in (429, 500, 502, 503, 504)` retries.
RETRY_STATUSES == {429, 500, 502, 503, 504}

\* HTTP error statuses the model's server answers with (raise_for_status
\* raises HTTPError for each): the five retried ones and one other.
ErrorStatuses == RETRY_STATUSES \cup {404}

NoExc == [kind |-> "none", status |-> 0]

\* What one SESSION.request + raise_for_status can do: succeed with a
\* response, raise one of the three caught network exceptions, raise
\* HTTPError with a status, or raise any other exception.
Outcomes ==
    [kind : {"ok"}, status : {200}]
    \cup [kind : {"ConnectionError", "Timeout", "ChunkedEncodingError", "OtherError"},
          status : {0}]
    \cup [kind : {"HTTPError"}, status : ErrorStatuses]

\* The server's behaviour over one call: an outcome for each request the
\* loop can issue.
Scripts == [1..MAX_RETRIES -> Outcomes]

\* except (ConnectionError, Timeout, ChunkedEncodingError)
IsNetworkError(o) == o.kind \in {"ConnectionError", "Timeout", "ChunkedEncodingError"}

\* except HTTPError with status in (429, 500, 502, 503, 504)
IsRetryStatusMut(o) == o.kind = "HTTPError" /\ o.status \in RETRY_STATUSES \cup {404}
IsRetryStatus(o) == o.kind = "HTTPError" /\ o.status \in RETRY_STATUSES

\* `if attempt < MAX_RETRIES:` guards the sleep.
SleepsAfterMut(a) == a <= MAX_RETRIES
SleepsAfter(a) == a < MAX_RETRIES

\* backoff = BASE_BACKOFF_SECONDS * 2 ** (attempt - 1) + uniform(0, JITTER_SECONDS)
Backoff(a, jitter) == BASE_BACKOFF_SECONDS * Pow2(a - 1) + jitter

\* The loop `for attempt in range(1, MAX_RETRIES + 1)` runs while this holds.
LoopContinuesMut(a) == a < MAX_RETRIES
LoopContinues(a) == a <= MAX_RETRIES

RetryIdle ==
    /\ r_pc = "idle" /\ attempt = 0 /\ last_exc = NoExc /\ r_ret = 0
    /\ r_err = NoExc /\ calls = 0 /\ sleeps = 0 /\ backoff = 0 /\ script = <<>>

\* Entry of request_with_retry: last_exc = None, attempt = 1.
RetryInit ==
    /\ r_pc = "attempt" /\ attempt = 1 /\ last_exc = NoExc /\ r_ret = 0
    /\ r_err = NoExc /\ calls = 0 /\ sleeps = 0 /\ backoff = 0
    /\ script \in Scripts

\* The outcome of the request this iteration issues.
ThisOutcome == script[calls + 1]

\* The tail of one failed iteration: sleep if attempt < MAX_RETRIES, then the
\* next iteration, or the RuntimeError after the loop.
AfterRetryable(o, jitter) ==
    /\ last_exc' = o
    /\ IF SleepsAfter(attempt)
          THEN sleeps' = sleeps + 1 /\ backoff' = Backoff(attempt, jitter)
          ELSE UNCHANGED <<sleeps, backoff>>
    /\ attempt' = attempt + 1
    /\ IF LoopContinues(attempt + 1)
          THEN r_pc' = "attempt" /\ r_err' = r_err
          ELSE r_pc' = "exhausted"
               /\ r_err' = [kind |-> "RuntimeError", status |-> 0]
    /\ UNCHANGED r_ret

\* resp = SESSION.request(...); resp.raise_for_status(); return resp
AttemptOk ==
    /\ r_pc = "attempt"
    /\ ThisOutcome.kind = "ok"
    /\ calls' = calls + 1
    /\ r_ret' = calls + 1 /\ r_pc' = "returned"
    /\ UNCHANGED <<attempt, last_exc, r_err, sleeps, backoff, script>>
    /\ UNCHANGED not_retry

\* except (ConnectionError, Timeout, ChunkedEncodingError) as e: last_exc = e
AttemptNetworkError ==
    /\ r_pc = "attempt"
    /\ IsNetworkError(ThisOutcome)
    /\ calls' = calls + 1
    /\ \E jitter \in {0, JITTER_SECONDS} : AfterRetryable(ThisOutcome, jitter)
    /\ UNCHANGED script
    /\ UNCHANGED not_retry

\* except HTTPError as e: status in (429, 500, 502, 503, 504): last_exc = e
AttemptRetryStatus ==
    /\ r_pc = "attempt"
    /\ IsRetryStatus(ThisOutcome)
    /\ calls' = calls + 1
    /\ \E jitter \in {0, JITTER_SECONDS} : AfterRetryable(ThisOutcome, jitter)
    /\ UNCHANGED script
    /\ UNCHANGED not_retry

\* except HTTPError as e: any other status: raise
AttemptFatalStatus ==
    /\ r_pc = "attempt"
    /\ ThisOutcome.kind = "HTTPError" /\ ~IsRetryStatus(ThisOutcome)
    /\ calls' = calls + 1
    /\ r_err' = ThisOutcome /\ r_pc' = "raised"
    /\ UNCHANGED <<attempt, last_exc, r_ret, sleeps, backoff, script>>
    /\ UNCHANGED not_retry

\* An exception no except clause names leaves the function as it is.
AttemptUncaught ==
    /\ r_pc = "attempt"
    /\ ThisOutcome.kind = "OtherError"
    /\ calls' = calls + 1
    /\ r_err' = ThisOutcome /\ r_pc' = "raised"
    /\ UNCHANGED <<attempt, last_exc, r_ret, sleeps, backoff, script>>
    /\ UNCHANGED not_retry

(***************************************************************************)
(* btc_balance_at_timestamp                                                *)
(***************************************************************************)
\* The max_pages argument (200 by default) and the most transactions the
\* server puts on one page; MaxHist caps the transactions of one history.
MaxPages == 2
PageLen == 2
MaxHist == 4

\* `last = None`: no cursor.
NoTxid == ""

\* The tracked address and another one.
Address == "A"
Other == "B"

\* One input: the address of the output it spends (prevout's
\* scriptpubkey_address) and that output's txid and index.
Vin(a, t, n) == [addr |-> a, txid |-> t, vout |-> n]
\* One output: scriptpubkey_address and value.
Vout(a, v) == [addr |-> a, value |-> v]

\* The transactions the explorer can report for the address:
\*  t1  pays A 500, confirmed at 100
\*  t2  spends t1:0, pays A 200 change, confirmed at 200
\*  t3  pays A 70, confirmed at 100
\*  t4  spends t3:0 in the block that confirmed t3 (same block_time)
\*  t5  unconfirmed (its status still carries a block_time): spends t1:0, pays A 50
\*  t6  confirmed, status without block_time: spends t3:0, pays A 30
TxPool ==
    { [txid |-> "t1", confirmed |-> TRUE, block_time |-> 100,
       vin |-> <<Vin(Other, "t0", 0)>>, vout |-> <<Vout(Address, 500)>>],
      [txid |-> "t2", confirmed |-> TRUE, block_time |-> 200,
       vin |-> <<Vin(Address, "t1", 0)>>,
       vout |-> <<Vout(Other, 300), Vout(Address, 200)>>],
      [txid |-> "t3", confirmed |-> TRUE, block_time |-> 100,
       vin |-> <<Vin(Other, "t0", 1)>>, vout |-> <<Vout(Address, 70)>>],
      [txid |-> "t4", confirmed |-> TRUE, block_time |-> 100,
       vin |-> <<Vin(Address, "t3", 0)>>, vout |-> <<Vout(Other, 70)>>],
      [txid |-> "t5", confirmed |-> FALSE, block_time |-> 100,
       vin |-> <<Vin(Address, "t1", 0)>>, vout |-> <<Vout(Address, 50)>>],
      [txid |-> "t6", confirmed |-> TRUE, block_time |-> None,
       vin |-> <<Vin(Address, "t3", 0)>>, vout |-> <<Vout(Address, 30)>>] }

Cutoffs == {99, 100, 199, 200, 250}

\* The non-empty pages the server can answer with.
PagesOfLen(n) == [1..n -> TxPool]
NonEmptyPages == UNION {PagesOfLen(n) : n \in 1..PageLen}

\* tx_block_time: block_time of a confirmed transaction, else None.
TxBlockTime(tx) == IF tx.confirmed THEN tx.block_time ELSE None

\* `bt is not None and bt <= ts_cutoff`
IsEligibleMut(tx, cutoff) == TxBlockTime(tx) # None /\ TxBlockTime(tx) < cutoff
IsEligible(tx, cutoff) == TxBlockTime(tx) # None /\ TxBlockTime(tx) <= cutoff

\* The sort key `tx_block_time(t) or 0`.
SortKey(tx) == IF TxBlockTime(tx) = None THEN 0 ELSE TxBlockTime(tx)

\* list.sort is stable: x goes behind every element whose key is <= its own.
RECURSIVE InsertSorted(_, _)
InsertSorted(sorted, x) ==
    IF sorted = <<>> THEN <<x>>
    ELSE IF SortKey(Head(sorted)) <= SortKey(x)
         THEN <<Head(sorted)>> \o InsertSorted(Tail(sorted), x)
         ELSE <<x>> \o sorted

RECURSIVE StableSort(_)
StableSort(txs) ==
    IF txs = <<>> THEN <<>>
    ELSE InsertSorted(StableSort(SubSeq(txs, 1, Len(txs) - 1)), txs[Len(txs)])

\* Lines 130-136: the eligible transactions, sorted by block time.
EligibleSorted(txs, cutoff) == StableSort(SelectSeq(txs, LAMBDA tx : IsEligible(tx, cutoff)))

\* utxos.pop(key, None)
Pop(u, key) == [k \in DOMAIN u \ {key} |-> u[k]]
\* utxos[key] = value
Put(u, key, value) == [k \in DOMAIN u \cup {key} |-> IF k = key THEN value ELSE u[k]]

\* The spend loop of one transaction over its inputs i..Len(vin).
RECURSIVE SpendInputs(_, _, _)
SpendInputs(u, vin, i) ==
    IF i > Len(vin) THEN u
    ELSE IF vin[i].addr = Address
         THEN SpendInputs(Pop(u, <<vin[i].txid, vin[i].vout>>), vin, i + 1)
         ELSE SpendInputs(u, vin, i + 1)

\* The receive loop of one transaction over its outputs i..Len(vout);
\* enumerate() numbers the outputs from 0.
RECURSIVE ReceiveOutputs(_, _, _, _)
ReceiveOutputs(u, txid, vout, i) ==
    IF i > Len(vout) THEN u
    ELSE IF vout[i].addr = Address
         THEN ReceiveOutputs(Put(u, <<txid, i - 1>>, vout[i].value), txid, vout, i + 1)
         ELSE ReceiveOutputs(u, txid, vout, i + 1)

\* One iteration of `for tx in eligible`: spend, then receive.
ApplyTx(u, tx) == ReceiveOutputs(SpendInputs(u, tx.vin, 1), tx.txid, tx.vout, 1)

\* Lines 138-157: the replay of txs[i..] over u.
RECURSIVE Replay(_, _, _)
Replay(u, txs, i) ==
    IF i > Len(txs) THEN u ELSE Replay(ApplyTx(u, txs[i]), txs, i + 1)

EmptyUtxos == [k \in {} |-> 0]

\* sum(utxos.values())
RECURSIVE SumValues(_)
SumValues(u) ==
    IF DOMAIN u = {} THEN 0
    ELSE LET k == CHOOSE x \in DOMAIN u : TRUE
         IN u[k] + SumValues(Pop(u, k))

BtcIdle ==
    /\ b_pc = "idle" /\ ts_cutoff = 0 /\ all_txs = <<>> /\ last = NoTxid
    /\ pages = 0 /\ eligible = <<>> /\ utxos = EmptyUtxos /\ b_ret = None
    /\ b_reqs = <<>>

\* Entry of btc_balance_at_timestamp: all_txs = [], last = None.
BtcInit ==
    /\ b_pc = "fetch" /\ ts_cutoff \in Cutoffs /\ all_txs = <<>> /\ last = NoTxid
    /\ pages = 0 /\ eligible = <<>> /\ utxos = EmptyUtxos /\ b_ret = None
    /\ b_reqs = <<>>

\* `for _ in range(max_pages)` has iterations left.
MorePages(n) == n < MaxPages

\* The cursor after a page: last = page[-1]["txid"].
NextCursorMut(page) == page[1].txid
NextCursor(page) == page[Len(page)].txid

\* get_address_txs: the path requested, /address/A/txs/chain/<txid> with a
\* cursor and /address/A/txs without.
GetAddressTxs(last_seen_txid) ==
    IF last_seen_txid # NoTxid THEN <<"txs", "chain", last_seen_txid>> ELSE <<"txs">>

TxidsOf(page) == [i \in 1..Len(page) |-> page[i].txid]

\* One page request as issued and answered.
PageReq(cursor, answer, page) ==
    [path |-> GetAddressTxs(cursor), answer |-> answer, txids |-> TxidsOf(page)]

\* One iteration that gets a non-empty page: extend all_txs, move the cursor;
\* after the last iteration the loop is left.
FetchPage ==
    /\ b_pc = "fetch" /\ MorePages(pages)
    /\ \E page \in NonEmptyPages :
        /\ Len(all_txs) + Len(page) <= MaxHist
        /\ all_txs' = all_txs \o page
        /\ last' = NextCursor(page)
        /\ b_reqs' = Append(b_reqs, PageReq(last, "page", page))
    /\ pages' = pages + 1
    /\ b_pc' = IF MorePages(pages + 1) THEN "fetch" ELSE "replay"
    /\ UNCHANGED <<ts_cutoff, eligible, utxos, b_ret>>
    /\ UNCHANGED not_btc

\* `if not page: break`
FetchEmptyPage ==
    /\ b_pc = "fetch" /\ MorePages(pages)
    /\ pages' = pages + 1
    /\ b_pc' = "replay"
    /\ b_reqs' = Append(b_reqs, PageReq(last, "empty", <<>>))
    /\ UNCHANGED <<ts_cutoff, all_txs, last, eligible, utxos, b_ret>>
    /\ UNCHANGED not_btc

\* get_address_txs raises (request_with_retry gave up or met a fatal status):
\* the exception leaves btc_balance_at_timestamp.
FetchFails ==
    /\ b_pc = "fetch" /\ MorePages(pages)
    /\ pages' = pages + 1
    /\ b_pc' = "failed"
    /\ b_reqs' = Append(b_reqs, PageReq(last, "error", <<>>))
    /\ UNCHANGED <<ts_cutoff, all_txs, last, eligible, utxos, b_ret>>
    /\ UNCHANGED not_btc

\* Lines 130-159: filter, sort, replay, sum.
ReplayAndSum ==
    /\ b_pc = "replay"
    /\ eligible' = EligibleSorted(all_txs, ts_cutoff)
    /\ utxos' = Replay(EmptyUtxos, eligible', 1)
    /\ b_ret' = SumValues(utxos')
    /\ b_pc' = "done"
    /\ UNCHANGED <<ts_cutoff, all_txs, last, pages, b_reqs>>
    /\ UNCHANGED not_btc

NextBtc ==
    \/ FetchPage
    \/ FetchEmptyPage
    \/ FetchFails
    \/ ReplayAndSum

(***************************************************************************)
(* find_last_signature_before_ts                                           *)
(***************************************************************************)
\* The page_limit argument (1000 by default) and the most signatures an
\* address's history holds.
PageLimit == 2
MaxSigs == 3

\* `before = None`: no cursor. Signatures are 1, 2, ...
NoSig == 0

BlockTimes == {None, 1, 2, 3}
SigCutoffs == {1, 2}

\* One entry of getSignaturesForAddress: signature and blockTime (None when
\* the node does not know it).
SigEntries == [signature : 1..MaxSigs, blockTime : BlockTimes]

\* The histories of a node that answers as documented: the i-th entry,
\* counted from the newest, carries signature i; block times are whatever
\* the node reports.
Histories ==
    UNION { {h \in [1..n -> SigEntries] : \A i \in 1..n : h[i].signature = i} :
            n \in 0..MaxSigs }

\* Any page a server can send: up to page_limit entries, in any order.
AnyPages == UNION { [1..n -> SigEntries] : n \in 0..PageLimit }

\* `bt is None: continue`, `bt <= ts_unix: return`
SigMatchesMut(e, cutoff) == e.blockTime <= cutoff
SigMatches(e, cutoff) == e.blockTime # None /\ e.blockTime <= cutoff

\* The first entry of the page the for loop returns at, 0 if it runs through.
FirstMatch(page, cutoff) ==
    LET M == {i \in 1..Len(page) : SigMatches(page[i], cutoff)}
    IN IF M = {} THEN 0 ELSE CHOOSE i \in M : \A j \in M : i <= j

\* before = sigs[-1]["signature"]
NextBefore(page) == page[Len(page)].signature

\* getSignaturesForAddress(address, {limit, before}) of a node holding h: the
\* up to `limit` entries that follow the cursor (from the newest without one).
NodePage(h, cursor, limit) ==
    LET at == {i \in 1..Len(h) : h[i].signature = cursor}
        pos == IF cursor = NoSig \/ at = {} THEN 0 ELSE CHOOSE i \in at : TRUE
        to == IF pos + limit <= Len(h) THEN pos + limit ELSE Len(h)
    IN SubSeq(h, pos + 1, to)

SigIdle ==
    /\ s_pc = "idle" /\ ts_unix = 0 /\ before = NoSig /\ sigs = <<>>
    /\ s_ret = NoSig /\ history = <<>> /\ s_log = <<>>

\* Entry of find_last_signature_before_ts against a node holding `history`.
SigInit ==
    /\ s_pc = "request" /\ ts_unix \in SigCutoffs /\ before = NoSig /\ sigs = <<>>
    /\ s_ret = NoSig /\ history \in Histories /\ s_log = <<>>

\* Entry of find_last_signature_before_ts against a server that may send
\* anything (no history, no request log is kept for it).
SigInitAny ==
    /\ s_pc = "request" /\ ts_unix \in SigCutoffs /\ before = NoSig /\ sigs = <<>>
    /\ s_ret = NoSig /\ history = <<>> /\ s_log = <<>>

\* sigs = rpc("getSignaturesForAddress", [address, cfg]), cfg carrying
\* `before` when it is set; the node answers from its history.
SigRequest ==
    /\ s_pc = "request"
    /\ sigs' = NodePage(history, before, PageLimit)
    /\ s_log' = Append(s_log, before)
    /\ s_pc' = "scan"
    /\ UNCHANGED <<ts_unix, before, s_ret, history>>
    /\ UNCHANGED not_sig

\* The same request, answered by a server that sends any page it likes.
SigRequestAny ==
    /\ s_pc = "request"
    /\ sigs' \in AnyPages
    /\ s_pc' = "scan"
    /\ UNCHANGED <<ts_unix, before, s_ret, history, s_log>>
    /\ UNCHANGED not_sig

\* rpc raises (HTTP error status, or an "error" member in the answer).
SigRequestFails ==
    /\ s_pc = "request"
    /\ s_pc' = "failed"
    /\ UNCHANGED <<ts_unix, before, sigs, s_ret, history, s_log>>
    /\ UNCHANGED not_sig

\* `if not sigs: return None`
SigScanEmpty ==
    /\ s_pc = "scan" /\ sigs = <<>>
    /\ s_ret' = NoSig /\ s_pc' = "returned"
    /\ UNCHANGED <<ts_unix, before, sigs, history, s_log>>
    /\ UNCHANGED not_sig

\* The for loop reaches an entry with blockTime <= ts_unix: return its signature.
SigScanFound ==
    /\ s_pc = "scan" /\ sigs # <<>> /\ FirstMatch(sigs, ts_unix) # 0
    /\ s_ret' = sigs[FirstMatch(sigs, ts_unix)].signature /\ s_pc' = "returned"
    /\ UNCHANGED <<ts_unix, before, sigs, history, s_log>>
    /\ UNCHANGED not_sig

\* The for loop runs through: the page's last signature is the next cursor.
SigScanNext ==
    /\ s_pc = "scan" /\ sigs # <<>> /\ FirstMatch(sigs, ts_unix) = 0
    /\ before' = NextBefore(sigs) /\ s_pc' = "request"
    /\ UNCHANGED <<ts_unix, sigs, s_ret, history, s_log>>
    /\ UNCHANGED not_sig

NextSig ==
    \/ SigRequest
    \/ SigRequestFails
    \/ SigScanEmpty
    \/ SigScanFound
    \/ SigScanNext

NextSigAny ==
    \/ SigRequestAny
    \/ SigRequestFails
    \/ SigScanEmpty
    \/ SigScanFound
    \/ SigScanNext

(***************************************************************************)
(* The price oracles. Prices and rates are in cents (1.0 USD = 100).       *)
(***************************************************************************)
\* The most price points one answer carries.
MaxPoints == 2

\* STABLE_FALLBACK = {"USDC": 1.0, "USDT": 1.0} (eth) and the 1.0 of
\* fallback_price (sol).
STABLE_RATE == 100
\* The keys of STABLE_FALLBACK (eth) and STABLES (sol).
STABLE_FALLBACK == {"USDC", "USDT"}
STABLES == {"USDC", "USDT", "USX"}
\* The keys of COINGECKO_IDS.
COINGECKO_IDS == {"JITOSOL"}

Symbols == {"BTC", "ETH", "SOL", "USDC", "USDT", "USX", "JITOSOL"}

\* A point without "timestamp" carries None; the timestamps are hours of the day.
Timestamps == {None, 10, 20}
\* datetime.min, below every timestamp.
DatetimeMin == 0

PricePoints == [value : {100, 150}, timestamp : Timestamps]
PointLists == UNION { [1..n -> PricePoints] : n \in 0..MaxPoints }

\* The answers of historical_price_usd: a JSON payload in one of the shapes
\*   "data.prices"  {"data": {"symbol": ..., "prices": [...]}}
\*   "data"         {"data": [...]}
\*   "prices"       {"prices": [...]}
\*   "other"        none of these
\* or an exception (raise_for_status, a connection failure, retries used up).
Shapes == {"data.prices", "data", "prices"}
PriceResponses ==
    [kind : {"json"}, shape : Shapes, points : PointLists]
    \cup [kind : {"json", "error"}, shape : {"other"}, points : {<<>>}]

\* Results: a rate, None, or an exception leaving the function.
Rate(r) == [kind |-> "rate", rate |-> r]
NoPrice == [kind |-> "none", rate |-> None]
Raises == [kind |-> "raise", rate |-> None]

\* _extract_price_points (btc, eth)
ExtractPricePoints(payload) ==
    IF payload.shape \in {"data.prices", "data", "prices"} THEN payload.points ELSE <<>>

\* parse_ts: datetime.min for a point without timestamp.
ParseTs(pt) == IF pt.timestamp = None THEN DatetimeMin ELSE pt.timestamp

\* max(points, key=parse_ts): the first point whose key is the greatest.
PyMax(points) ==
    LET M == {i \in 1..Len(points) :
                \A j \in 1..Len(points) : ParseTs(points[j]) <= ParseTs(points[i])}
    IN points[CHOOSE i \in M : \A j \in M : i <= j]

\* fx_rate_usd_end_of_day of src/btc.py
BtcFxRate(symbol, resp) ==
    IF resp.kind = "error" THEN Raises
    ELSE IF ExtractPricePoints(resp) = <<>> THEN Raises
    ELSE Rate(PyMax(ExtractPricePoints(resp)).value)

\* fx_rate_usd_end_of_day of src/eth_alchemy.py
EthFxRate(symbol, resp) ==
    IF resp.kind = "error" \/ ExtractPricePoints(resp) = <<>>
    THEN IF symbol \in STABLE_FALLBACK THEN Rate(STABLE_RATE) ELSE Raises
    ELSE Rate(PyMax(ExtractPricePoints(resp)).value)

\* price_on_date_usd of src/solana_alchemy.py: data = prices.get("data", []);
\* `if data: return float(data[0]["value"])`. A non-empty list gives its first
\* point; the dict of shape "data.prices" is truthy and data[0] raises
\* KeyError, which `except Exception: pass` swallows like every other failure.
\* Then CoinGecko, for the symbols of COINGECKO_IDS.
SolPriceOnDate(symbol, resp, cg) ==
    IF resp.kind = "json" /\ resp.shape = "data" /\ resp.points # <<>>
    THEN Rate(resp.points[1].value)
    ELSE IF symbol \in COINGECKO_IDS
         THEN (IF cg = None THEN NoPrice ELSE Rate(cg))
         ELSE NoPrice

\* fallback_price
FallbackPrice(label) == IF label \in STABLES THEN Rate(STABLE_RATE) ELSE NoPrice

\* token_usd_value, lines 321-323: px = price_on_date_usd(...); if px is
\* None: px = fallback_price(label)
SolTokenPrice(label, resp, cg) ==
    IF SolPriceOnDate(label, resp, cg) = NoPrice
    THEN FallbackPrice(label)
    ELSE SolPriceOnDate(label, resp, cg)

\* sol_price = price_on_date_usd("SOL", ondate) or 0.0
SolNativePriceMut(resp, cg) == SolPriceOnDate("SOL", resp, cg).rate
SolNativePrice(resp, cg) ==
    IF SolPriceOnDate("SOL", resp, cg) = NoPrice
    THEN 0
    ELSE SolPriceOnDate("SOL", resp, cg).rate

PriceIdle ==
    /\ p_pc = "idle" /\ p_variant = "-" /\ p_symbol = "-"
    /\ p_resp = [kind |-> "error", shape |-> "other", points |-> <<>>]
    /\ p_cg = None /\ p_raw = NoPrice /\ p_out = NoPrice

\* One oracle call: the file, the symbol, and what the two price sources
\* answer for the day.
PriceInit ==
    /\ p_pc = "call" /\ p_variant \in {"btc", "eth", "sol"} /\ p_symbol \in Symbols
    /\ p_resp \in PriceResponses /\ p_cg \in {None, 300}
    /\ p_raw = NoPrice /\ p_out = NoPrice

CallBtcFxRate ==
    /\ p_pc = "call" /\ p_variant = "btc"
    /\ p_out' = BtcFxRate(p_symbol, p_resp)
    /\ p_pc' = "done"
    /\ UNCHANGED <<p_variant, p_symbol, p_resp, p_cg, p_raw>>
    /\ UNCHANGED not_price

CallEthFxRate ==
    /\ p_pc = "call" /\ p_variant = "eth"
    /\ p_out' = EthFxRate(p_symbol, p_resp)
    /\ p_pc' = "done"
    /\ UNCHANGED <<p_variant, p_symbol, p_resp, p_cg, p_raw>>
    /\ UNCHANGED not_price

\* price_on_date_usd followed by fallback_price, as token_usd_value calls them.
CallSolPrice ==
    /\ p_pc = "call" /\ p_variant = "sol"
    /\ p_raw' = SolPriceOnDate(p_symbol, p_resp, p_cg)
    /\ p_out' = SolTokenPrice(p_symbol, p_resp, p_cg)
    /\ p_pc' = "done"
    /\ UNCHANGED <<p_variant, p_symbol, p_resp, p_cg>>
    /\ UNCHANGED not_price

NextPrice ==
    \/ CallBtcFxRate
    \/ CallEthFxRate
    \/ CallSolPrice

(***************************************************************************)
(* The snapshot assemblers. Amounts stay in smallest units (satoshi, wei,  *)
(* lamports, raw token units) and a USD value is amount * rate: the        *)
(* division by 10^decimals is a fixed scaling the model leaves out.        *)
(***************************************************************************)
\* The most token accounts a wallet holds for one mint.
MaxAccts == 2

Assets == {"BTC", "ETH", "WETH", "SOL", "USDC", "USDT", "USX", "JITOSOL"}

NoneOf == [a \in Assets |-> None]
NotAsked == [a \in Assets |-> "-"]

\* What the price sources answer during a snapshot.
SnapPoint == [value |-> 150, timestamp |-> 10]
SnapResponses ==
    [kind : {"json"}, shape : Shapes, points : {<<>>, <<SnapPoint>>}]
    \cup [kind : {"json", "error"}, shape : {"other"}, points : {<<>>}]
SnapCg == {None, 300}

\* The sources the oracle of `chain` consults have a price for the symbol:
\* the Alchemy answer carries a point, or (sol) CoinGecko knows the symbol
\* and answers.
Offered(chain, symbol, resp, cg) ==
    \/ resp.kind = "json" /\ resp.points # <<>>
    \/ chain = "sol" /\ symbol \in COINGECKO_IDS /\ cg # None

OfferFlag(chain, symbol, resp, cg) ==
    IF Offered(chain, symbol, resp, cg) THEN "yes" ELSE "no"

SnapIdle ==
    /\ n_pc = "idle" /\ n_chain = "-" /\ n_key = TRUE /\ n_block = None
    /\ n_reqs = <<>> /\ n_amt = NoneOf /\ n_rate = NoneOf /\ n_val = NoneOf
    /\ n_offer = NotAsked /\ n_out = "none" /\ n_err = "-"

\* Entry of one of the three snapshot functions.
SnapInit ==
    /\ n_chain \in {"btc", "eth", "sol"}
    /\ n_pc = (IF n_chain = "btc" THEN "btc_balance"
               ELSE IF n_chain = "eth" THEN "eth_block" ELSE "sol_native")
    /\ n_key \in (IF n_chain = "eth" THEN BOOLEAN ELSE {TRUE})
    /\ n_block = None /\ n_reqs = <<>> /\ n_amt = NoneOf /\ n_rate = NoneOf
    /\ n_val = NoneOf /\ n_offer = NotAsked /\ n_out = "none" /\ n_err = "-"

\* An exception leaves the snapshot function: no row.
SnapRaise(why) ==
    /\ n_pc' = "done" /\ n_out' = "error" /\ n_err' = why

\* ---- btc_snapshot_with_usd ----
\* sats = btc_balance_at_timestamp(address, ts)
SnapBtcBalance ==
    /\ n_pc = "btc_balance"
    /\ \E sats \in {0, 500} : n_amt' = [n_amt EXCEPT !["BTC"] = sats]
    /\ n_pc' = "btc_price"
    /\ UNCHANGED <<n_chain, n_key, n_block, n_reqs, n_rate, n_val, n_offer, n_out, n_err>>
    /\ UNCHANGED not_snap

\* btc_balance_at_timestamp raises (a page request failed).
SnapBtcBalanceFails ==
    /\ n_pc = "btc_balance"
    /\ SnapRaise("balance")
    /\ UNCHANGED <<n_chain, n_key, n_block, n_reqs, n_amt, n_rate, n_val, n_offer>>
    /\ UNCHANGED not_snap

\* btc_usd_rate = fx_rate_usd_end_of_day("BTC", ondate); the row follows.
SnapBtcPrice ==
    /\ n_pc = "btc_price"
    /\ \E resp \in SnapResponses :
        LET r == BtcFxRate("BTC", resp)
        IN /\ n_offer' = [n_offer EXCEPT !["BTC"] = OfferFlag("btc", "BTC", resp, None)]
           /\ IF r.kind = "raise"
                 THEN SnapRaise("price") /\ UNCHANGED <<n_rate, n_val>>
                 ELSE /\ n_rate' = [n_rate EXCEPT !["BTC"] = r.rate]
                      /\ n_val' = [n_val EXCEPT !["BTC"] = n_amt["BTC"] * r.rate]
                      /\ n_pc' = "done" /\ n_out' = "row" /\ n_err' = n_err
    /\ UNCHANGED <<n_chain, n_key, n_block, n_reqs, n_amt>>
    /\ UNCHANGED not_snap

\* ---- eth_snapshot_with_usd ----
\* One request: its method and, for a state read, the block parameter.
ReqMut(kind, blk) ==
    [kind |-> kind, block |-> IF kind = "eth_call" THEN None ELSE blk]
Req(kind, blk) == [kind |-> kind, block |-> blk]

\* get_block_by_time_etherscan: `if not ETHERSCAN_KEY: raise`, before any request.
SnapEthNoKey ==
    /\ n_pc = "eth_block" /\ ~n_key
    /\ SnapRaise("config")
    /\ UNCHANGED <<n_chain, n_key, n_block, n_reqs, n_amt, n_rate, n_val, n_offer>>
    /\ UNCHANGED not_snap

\* The getblocknobytime request answers with status "1" and a block number.
SnapEthBlock ==
    /\ n_pc = "eth_block" /\ n_key
    /\ n_reqs' = Append(n_reqs, Req("getblocknobytime", None))
    /\ \E b \in {7, 8} : n_block' = b
    /\ n_pc' = "eth_native"
    /\ UNCHANGED <<n_chain, n_key, n_amt, n_rate, n_val, n_offer, n_out, n_err>>
    /\ UNCHANGED not_snap

\* The request fails (raise_for_status) or its status is not "1".
SnapEthBlockFails ==
    /\ n_pc = "eth_block" /\ n_key
    /\ n_reqs' = Append(n_reqs, Req("getblocknobytime", None))
    /\ SnapRaise("block")
    /\ UNCHANGED <<n_chain, n_key, n_block, n_amt, n_rate, n_val, n_offer>>
    /\ UNCHANGED not_snap

\* The balance reads, in the order of lines 168-173.
EthReads == <<"ETH", "USDC", "USDT", "WETH">>
EthReadPc == <<"eth_native", "eth_usdc", "eth_usdt", "eth_weth">>
\* The oracle calls, in the order of lines 180-182.
EthPrices == <<"ETH", "USDC", "USDT">>
EthPricePc == <<"eth_px_eth", "eth_px_usdc", "eth_px_usdt">>

\* eth_balance_at_block / erc20_balance_at_block at `block`.
SnapEthRead ==
    \E i \in 1..4 :
        /\ n_pc = EthReadPc[i]
        /\ n_reqs' = Append(n_reqs, Req(IF i = 1 THEN "eth_getBalance" ELSE "eth_call",
                                       n_block))
        /\ \E raw \in {0, 3} : n_amt' = [n_amt EXCEPT ![EthReads[i]] = raw]
        /\ n_pc' = (IF i < 4 THEN EthReadPc[i + 1] ELSE EthPricePc[1])
        /\ UNCHANGED <<n_chain, n_key, n_block, n_rate, n_val, n_offer, n_out, n_err>>
        /\ UNCHANGED not_snap

\* rpc raises during a balance read.
SnapEthReadFails ==
    \E i \in 1..4 :
        /\ n_pc = EthReadPc[i]
        /\ n_reqs' = Append(n_reqs, Req(IF i = 1 THEN "eth_getBalance" ELSE "eth_call",
                                       n_block))
        /\ SnapRaise("rpc")
        /\ UNCHANGED <<n_chain, n_key, n_block, n_amt, n_rate, n_val, n_offer>>
        /\ UNCHANGED not_snap

\* The values of lines 186-194 once the three rates are known: WETH is
\* priced at the ETH rate.
EthValues(amt, rate) ==
    [a \in Assets |->
        IF a \in {"ETH", "USDC", "USDT"} THEN amt[a] * rate[a]
        ELSE IF a = "WETH" THEN amt["WETH"] * rate["ETH"]
        ELSE None]

\* fx_rate_usd_end_of_day for ETH, USDC, USDT; after the third, the row.
SnapEthPrice ==
    \E i \in 1..3 :
        /\ n_pc = EthPricePc[i]
        /\ \E resp \in SnapResponses :
            LET r == EthFxRate(EthPrices[i], resp)
                rates == [n_rate EXCEPT ![EthPrices[i]] = r.rate]
            IN /\ n_offer' = [n_offer EXCEPT
                                ![EthPrices[i]] = OfferFlag("eth", EthPrices[i], resp, None)]
               /\ IF r.kind = "raise"
                     THEN SnapRaise("price") /\ UNCHANGED <<n_rate, n_val>>
                     ELSE IF i < 3
                     THEN /\ n_rate' = rates /\ n_pc' = EthPricePc[i + 1]
                          /\ UNCHANGED <<n_val, n_out, n_err>>
                     ELSE /\ n_rate' = [rates EXCEPT !["WETH"] = rates["ETH"]]
                          /\ n_val' = EthValues(n_amt, rates)
                          /\ n_pc' = "done" /\ n_out' = "row" /\ n_err' = n_err
        /\ UNCHANGED <<n_chain, n_key, n_block, n_reqs, n_amt>>
        /\ UNCHANGED not_snap

\* ---- solana_wallet_value_on_date ----
\* Lines 264-274: no signature at or before the cutoff gives 0.0, else the
\* post-balance of the wallet in that transaction.
SnapSolNative ==
    /\ n_pc = "sol_native"
    /\ \E lamports \in {0, 5} : n_amt' = [n_amt EXCEPT !["SOL"] = lamports]
    /\ n_pc' = "sol_price"
    /\ UNCHANGED <<n_chain, n_key, n_block, n_reqs, n_rate, n_val, n_offer, n_out, n_err>>
    /\ UNCHANGED not_snap

\* rpc raises, or the wallet is not among the transaction's accountKeys.
SnapSolNativeFails ==
    /\ n_pc = "sol_native"
    /\ SnapRaise("rpc")
    /\ UNCHANGED <<n_chain, n_key, n_block, n_reqs, n_amt, n_rate, n_val, n_offer>>
    /\ UNCHANGED not_snap

\* Lines 277-278: sol_price = price_on_date_usd("SOL", ondate) or 0.0
SnapSolPrice ==
    /\ n_pc = "sol_price"
    /\ \E resp \in SnapResponses, cg \in SnapCg :
        /\ n_offer' = [n_offer EXCEPT !["SOL"] = OfferFlag("sol", "SOL", resp, cg)]
        /\ n_rate' = [n_rate EXCEPT !["SOL"] = SolNativePrice(resp, cg)]
        /\ n_val' = [n_val EXCEPT !["SOL"] = n_amt["SOL"] * SolNativePrice(resp, cg)]
    /\ n_pc' = "sol_discovery"
    /\ UNCHANGED <<n_chain, n_key, n_block, n_reqs, n_amt, n_out, n_err>>
    /\ UNCHANGED not_snap

\* The tokens valued, in the order of lines 337-340.
SolTokens == <<"USDC", "USDT", "USX", "JITOSOL">>
SolTokenPc == <<"sol_usdc", "sol_usdt", "sol_usx", "sol_jitosol">>
SolTokenPxPc == <<"sol_px_usdc", "sol_px_usdt", "sol_px_usx", "sol_px_jitosol">>

\* Lines 286-298: the getTokenAccountsByOwner calls succeed.
SnapSolDiscovery ==
    /\ n_pc = "sol_discovery"
    /\ n_pc' = SolTokenPc[1]
    /\ UNCHANGED <<n_chain, n_key, n_block, n_reqs, n_amt, n_rate, n_val, n_offer,
                   n_out, n_err>>
    /\ UNCHANGED not_snap

\* One of them raises.
SnapSolDiscoveryFails ==
    /\ n_pc = "sol_discovery"
    /\ SnapRaise("rpc")
    /\ UNCHANGED <<n_chain, n_key, n_block, n_reqs, n_amt, n_rate, n_val, n_offer>>
    /\ UNCHANGED not_snap

\* What spl_balance_at_ts_via_last_tx returns for each token account of one
\* mint: None or a balance.
AcctBalances == UNION { [1..n -> {None, 0, 2}] : n \in 0..MaxAccts }

\* total and found_any of lines 308-314.
RECURSIVE TotalOf(_)
TotalOf(bals) ==
    IF bals = <<>> THEN 0
    ELSE (IF Head(bals) = None THEN 0 ELSE Head(bals)) + TotalOf(Tail(bals))

FoundAny(bals) == \E i \in 1..Len(bals) : bals[i] # None

\* After the statement at SolTokenPc[i]: the next token, or the return.
SolAfterToken(i) ==
    IF i < 4
    THEN n_pc' = SolTokenPc[i + 1] /\ UNCHANGED <<n_out, n_err>>
    ELSE n_pc' = "done" /\ n_out' = "row" /\ n_err' = n_err

\* token_usd_value without a balance: no token account (line 303) or no
\* account yields one (line 316): 0.0, and the oracle is not asked.
SnapSolTokenNoBalance ==
    \E i \in 1..4 :
        /\ n_pc = SolTokenPc[i]
        /\ \E bals \in AcctBalances : ~FoundAny(bals)
        /\ n_val' = [n_val EXCEPT ![SolTokens[i]] = 0]
        /\ SolAfterToken(i)
        /\ UNCHANGED <<n_chain, n_key, n_block, n_reqs, n_amt, n_rate, n_offer>>
        /\ UNCHANGED not_snap

\* token_usd_value with a balance: lines 308-314 leave the total of the
\* balances that could be derived; the price lookup follows.
SnapSolTokenBalance ==
    \E i \in 1..4 :
        /\ n_pc = SolTokenPc[i]
        /\ \E bals \in AcctBalances :
            /\ FoundAny(bals)
            /\ n_amt' = [n_amt EXCEPT ![SolTokens[i]] = TotalOf(bals)]
        /\ n_pc' = SolTokenPxPc[i]
        /\ UNCHANGED <<n_chain, n_key, n_block, n_reqs, n_rate, n_val, n_offer, n_out, n_err>>
        /\ UNCHANGED not_snap

\* Lines 321-335: price_on_date_usd, then fallback_price; 0.0 when neither
\* has a price, else total * px.
SnapSolTokenValue ==
    \E i \in 1..4 :
        /\ n_pc = SolTokenPxPc[i]
        /\ \E resp \in SnapResponses, cg \in SnapCg :
            LET px == SolTokenPrice(SolTokens[i], resp, cg)
            IN /\ n_offer' = [n_offer EXCEPT
                                ![SolTokens[i]] = OfferFlag("sol", SolTokens[i], resp, cg)]
               /\ n_rate' = [n_rate EXCEPT ![SolTokens[i]] = px.rate]
               /\ n_val' = [n_val EXCEPT
                              ![SolTokens[i]] = IF px.kind = "rate"
                                                THEN n_amt[SolTokens[i]] * px.rate ELSE 0]
        /\ SolAfterToken(i)
        /\ UNCHANGED <<n_chain, n_key, n_block, n_reqs, n_amt>>
        /\ UNCHANGED not_snap

\* rpc raises inside spl_balance_at_ts_via_last_tx.
SnapSolTokenFails ==
    \E i \in 1..4 :
        /\ n_pc = SolTokenPc[i]
        /\ SnapRaise("rpc")
        /\ UNCHANGED <<n_chain, n_key, n_block, n_reqs, n_amt, n_rate, n_val, n_offer>>
        /\ UNCHANGED not_snap

NextSnap ==
    \/ SnapBtcBalance
    \/ SnapBtcBalanceFails
    \/ SnapBtcPrice
    \/ SnapEthNoKey
    \/ SnapEthBlock
    \/ SnapEthBlockFails
    \/ SnapEthRead
    \/ SnapEthReadFails
    \/ SnapEthPrice
    \/ SnapSolNative
    \/ SnapSolNativeFails
    \/ SnapSolPrice
    \/ SnapSolDiscovery
    \/ SnapSolDiscoveryFails
    \/ SnapSolTokenNoBalance
    \/ SnapSolTokenBalance
    \/ SnapSolTokenValue
    \/ SnapSolTokenFails

(***************************************************************************)
(* token_usd_value, one call, with the m2tas it closes over.               *)
(***************************************************************************)
\* The most token accounts getTokenAccountsByOwner reports for the wallet.
MaxItems == 3

\* USDC_MINT, USDT_MINT, USX_MINT, JITOSOL_MINT by label.
MintOf == [USDC |-> "USDC_MINT", USDT |-> "USDT_MINT", USX |-> "USX_MINT",
           JITOSOL |-> "JITOSOL_MINT"]
TokLabels == {"USDC", "USDT", "USX", "JITOSOL"}

\* info.get("mint") gave nothing.
NoMint == ""
\* The mints of the wallet's token accounts: two tracked ones, an untracked
\* one, or none in the parsed data.
ItemMints == {"USDC_MINT", "USX_MINT", "OTHER_MINT", NoMint}
AllMints == {MintOf[l] : l \in TokLabels} \cup {"OTHER_MINT"}

\* The token accounts as get_token_accounts_by_owner lists them (both token
\* programs, concatenated); the pubkey of the i-th is i.
ItemsOf(ms) == [i \in 1..Len(ms) |-> [pubkey |-> i, mint |-> ms[i]]]
ItemLists == { ItemsOf(ms) : ms \in UNION { [1..n -> ItemMints] : n \in 0..MaxItems } }

\* `out: Dict = {}`; a mint without a key reads as [] through m2tas.get(mint, []).
EmptyM2tas == [m \in AllMints |-> <<>>]

\* mint_to_token_accounts: `if mint: out.setdefault(mint, []).append(pubkey)`
RECURSIVE MintToTokenAccounts(_, _)
MintToTokenAccounts(out, items) ==
    IF items = <<>> THEN out
    ELSE LET item == Head(items)
         IN MintToTokenAccounts(
                IF item.mint # NoMint
                THEN [out EXCEPT ![item.mint] = Append(@, item.pubkey)]
                ELSE out,
                Tail(items))

\* What spl_balance_at_ts_via_last_tx returns for one token account.
SplReturns == {None, 0, 2}

\* `if bal is not None: total += bal; found_any = True`
AccumulateMut(tot, bal) == IF bal # None THEN bal ELSE tot
Accumulate(tot, bal) == IF bal # None THEN tot + bal ELSE tot
FoundAfter(found, bal) == IF bal # None THEN TRUE ELSE found

\* No price lookup was made.
NotLooked == [kind |-> "-", rate |-> None]

TokIdle ==
    /\ t_pc = "idle" /\ t_items = <<>> /\ t_label = "-" /\ m2tas = EmptyM2tas
    /\ token_accounts = <<>> /\ t_i = 0 /\ total = 0 /\ found_any = FALSE
    /\ t_bals = <<>> /\ t_px = NotLooked /\ t_ret = None /\ t_err = FALSE

\* Before line 298, with the label one of the calls of lines 337-340 passes.
TokInit ==
    /\ t_pc = "discover" /\ t_items \in ItemLists /\ t_label \in TokLabels
    /\ m2tas = EmptyM2tas /\ token_accounts = <<>> /\ t_i = 0 /\ total = 0
    /\ found_any = FALSE /\ t_bals = <<>> /\ t_px = NotLooked /\ t_ret = None
    /\ t_err = FALSE

\* Line 298: m2tas = mint_to_token_accounts(wallet)
TokDiscover ==
    /\ t_pc = "discover"
    /\ m2tas' = MintToTokenAccounts(EmptyM2tas, t_items)
    /\ t_pc' = "start"
    /\ UNCHANGED <<t_items, t_label, token_accounts, t_i, total, found_any, t_bals,
                   t_px, t_ret, t_err>>
    /\ UNCHANGED not_tok

\* Lines 302-306: no token account for the mint returns 0.0.
TokNoAccounts ==
    /\ t_pc = "start"
    /\ m2tas[MintOf[t_label]] = <<>>
    /\ token_accounts' = <<>>
    /\ t_ret' = 0 /\ t_pc' = "done"
    /\ UNCHANGED <<t_items, t_label, m2tas, t_i, total, found_any, t_bals, t_px, t_err>>
    /\ UNCHANGED not_tok

\* Lines 302, 308-309: total = 0.0, found_any = False.
TokStart ==
    /\ t_pc = "start"
    /\ m2tas[MintOf[t_label]] # <<>>
    /\ token_accounts' = m2tas[MintOf[t_label]]
    /\ total' = 0 /\ found_any' = FALSE
    /\ t_pc' = "loop"
    /\ UNCHANGED <<t_items, t_label, m2tas, t_i, t_bals, t_px, t_ret, t_err>>
    /\ UNCHANGED not_tok

\* Lines 310-314, one iteration of `for ta in token_accounts`.
TokAccount ==
    /\ t_pc = "loop"
    /\ \E bal \in SplReturns :
        /\ total' = Accumulate(total, bal)
        /\ found_any' = FoundAfter(found_any, bal)
        /\ t_bals' = Append(t_bals, bal)
    /\ t_i' = t_i + 1
    /\ t_pc' = IF t_i + 1 < Len(token_accounts) THEN "loop" ELSE "after"
    /\ UNCHANGED <<t_items, t_label, m2tas, token_accounts, t_px, t_ret, t_err>>
    /\ UNCHANGED not_tok

\* rpc raises inside spl_balance_at_ts_via_last_tx: nothing catches it.
TokAccountFails ==
    /\ t_pc = "loop"
    /\ t_err' = TRUE /\ t_pc' = "done"
    /\ UNCHANGED <<t_items, t_label, m2tas, token_accounts, t_i, total, found_any,
                   t_bals, t_px, t_ret>>
    /\ UNCHANGED not_tok

\* Lines 316-319: `if not found_any: return 0.0`
TokNotFound ==
    /\ t_pc = "after" /\ ~found_any
    /\ t_ret' = 0 /\ t_pc' = "done"
    /\ UNCHANGED <<t_items, t_label, m2tas, token_accounts, t_i, total, found_any,
                   t_bals, t_px, t_err>>
    /\ UNCHANGED not_tok

\* Lines 321-335: the price lookup, the fallback, and 0.0 or total * px.
TokPrice ==
    /\ t_pc = "after" /\ found_any
    /\ \E resp \in SnapResponses, cg \in SnapCg :
        LET px == SolTokenPrice(t_label, resp, cg)
        IN /\ t_px' = px
           /\ t_ret' = IF px.kind = "rate" THEN total * px.rate ELSE 0
    /\ t_pc' = "done"
    /\ UNCHANGED <<t_items, t_label, m2tas, token_accounts, t_i, total, found_any,
                   t_bals, t_err>>
    /\ UNCHANGED not_tok

NextTok ==
    \/ TokDiscover
    \/ TokNoAccounts
    \/ TokStart
    \/ TokAccount
    \/ TokAccountFails
    \/ TokNotFound
    \/ TokPrice

(***************************************************************************)
(* spl_balance_at_ts_via_last_tx, one call.                                *)
(***************************************************************************)
\* The most entries of a postTokenBalances or preTokenBalances list.
MaxEntries == 2

RECURSIVE Pow10(_)
Pow10(n) == IF n = 0 THEN 1 ELSE 10 * Pow10(n - 1)

\* The token_account and mint arguments.
TokenAccount == "ta"
TargetMint == "M"

\* pubkeys: the transaction's account keys; accountIndex counts from 0, so
\* the token account is at accountIndex 1.
Pubkeys == <<"other", "ta">>

\* One token-balance entry: mint, accountIndex, uiTokenAmount.amount and
\* uiTokenAmount.decimals, each None when the key is missing.
Entry(m, idx, amt, dec) == [mint |-> m, accountIndex |-> idx, amount |-> amt, decimals |-> dec]

\* Entries of the token account (raw 300, 500 and 0 at 2 decimals), of
\* another account, of another mint, without an index, with an index past
\* the key list, without an amount, without decimals.
Entries ==
    { Entry(TargetMint, 1, 300, 2), Entry(TargetMint, 1, 500, 2),
      Entry(TargetMint, 1, 0, 2), Entry(TargetMint, 0, 700, 2),
      Entry("X", 1, 700, 2), Entry(TargetMint, None, 700, 2),
      Entry(TargetMint, 2, 700, 2), Entry(TargetMint, 1, None, 2),
      Entry(TargetMint, 1, 700, None) }

EntryLists == UNION { [1..n -> Entries] : n \in 0..MaxEntries }

\* A token-balance list of tx["meta"]: missing, or a list.
TokenBalances ==
    {[present |-> FALSE, entries |-> <<>>]} \cup [present : {TRUE}, entries : EntryLists]

\* What getTransaction returns: nothing usable (`not tx`, or no "transaction"
\* or "meta" key), or a transaction.
NoTx == [found |-> FALSE, post |-> [present |-> FALSE, entries |-> <<>>],
         pre |-> [present |-> FALSE, entries |-> <<>>]]
Transactions == {NoTx} \cup [found : {TRUE}, post : TokenBalances, pre : TokenBalances]

\* tx["meta"].get("postTokenBalances") or []
OrEmpty(tb) == IF tb.present THEN tb.entries ELSE <<>>

\* pick_balance, line 164: the entry is the token account's.
PointsAt(e, pubkeys, token_account) ==
    /\ e.accountIndex # None
    /\ 0 <= e.accountIndex /\ e.accountIndex < Len(pubkeys)
    /\ pubkeys[e.accountIndex + 1] = token_account

\* pick_balance: the first entry of the mint that points at the token
\* account and carries amount and decimals, as int(amount) / 10 ** decimals.
RECURSIVE PickBalance(_, _, _, _)
PickBalance(entries, pubkeys, mint, token_account) ==
    IF entries = <<>> THEN None
    ELSE LET e == Head(entries)
         IN IF /\ e.mint = mint
               /\ PointsAt(e, pubkeys, token_account)
               /\ e.amount # None /\ e.decimals # None
            THEN e.amount \div Pow10(e.decimals)
            ELSE PickBalance(Tail(entries), pubkeys, mint, token_account)

\* Lines 172-175: bal = pick_balance(post_tb); if bal is None: bal =
\* pick_balance(pre_tb)
BalanceOf(tx, pubkeys, mint, token_account) ==
    LET bal == PickBalance(OrEmpty(tx.post), pubkeys, mint, token_account)
    IN IF bal = None
       THEN PickBalance(OrEmpty(tx.pre), pubkeys, mint, token_account)
       ELSE bal

SplIdle ==
    /\ x_pc = "idle" /\ x_sig = NoSig /\ x_tx = NoTx /\ x_ret = None

\* Entry of spl_balance_at_ts_via_last_tx, with what the node will answer.
SplInit ==
    /\ x_pc = "call" /\ x_sig \in {NoSig, 1} /\ x_tx \in Transactions
    /\ (x_sig = NoSig => x_tx = NoTx)
    /\ x_ret = None

\* Lines 143-145: `if not sig: return None`
SplNoSignature ==
    /\ x_pc = "call" /\ x_sig = NoSig
    /\ x_ret' = None /\ x_pc' = "done"
    /\ UNCHANGED <<x_sig, x_tx>>
    /\ UNCHANGED not_spl

\* Lines 147-149: no usable transaction returns None.
SplNoTransaction ==
    /\ x_pc = "call" /\ x_sig # NoSig /\ ~x_tx.found
    /\ x_ret' = None /\ x_pc' = "done"
    /\ UNCHANGED <<x_sig, x_tx>>
    /\ UNCHANGED not_spl

\* Lines 151-175.
SplPick ==
    /\ x_pc = "call" /\ x_sig # NoSig /\ x_tx.found
    /\ x_ret' = BalanceOf(x_tx, Pubkeys, TargetMint, TokenAccount)
    /\ x_pc' = "done"
    /\ UNCHANGED <<x_sig, x_tx>>
    /\ UNCHANGED not_spl

NextSpl ==
    \/ SplNoSignature
    \/ SplNoTransaction
    \/ SplPick

(***************************************************************************)
(* Specifications.                                                         *)
(***************************************************************************)
NextRetry ==
    \/ AttemptOk
    \/ AttemptNetworkError
    \/ AttemptRetryStatus
    \/ AttemptFatalStatus
    \/ AttemptUncaught

InitRetry == RetryInit /\ BtcIdle /\ SigIdle /\ PriceIdle /\ SnapIdle
    /\ TokIdle /\ SplIdle

SpecRetry == InitRetry /\ [][NextRetry]_vars

InitBtc == BtcInit /\ RetryIdle /\ SigIdle /\ PriceIdle /\ SnapIdle
    /\ TokIdle /\ SplIdle

SpecBtc == InitBtc /\ [][NextBtc]_vars

\* The page loop of btc_balance_at_timestamp runs on: each request returns or
\* raises (every call carries timeout=30), and nothing else is scheduled.
FairSpecBtc == SpecBtc /\ WF_vars(NextBtc)

InitSig == SigInit /\ RetryIdle /\ BtcIdle /\ PriceIdle /\ SnapIdle
    /\ TokIdle /\ SplIdle

SpecSig == InitSig /\ [][NextSig]_vars

\* The signature search against an arbitrary server. The function is one
\* sequential loop: each rpc call returns or raises (timeout=30) and the scan
\* of a page always completes, so a step that is possible is taken.
InitSigAny == SigInitAny /\ RetryIdle /\ BtcIdle /\ PriceIdle /\ SnapIdle
    /\ TokIdle /\ SplIdle

FairSpecSigAny == InitSigAny /\ [][NextSigAny]_vars /\ WF_vars(NextSigAny)

InitPrice == PriceInit /\ RetryIdle /\ BtcIdle /\ SigIdle /\ SnapIdle
    /\ TokIdle /\ SplIdle

SpecPrice == InitPrice /\ [][NextPrice]_vars

InitSnap == SnapInit /\ RetryIdle /\ BtcIdle /\ SigIdle /\ PriceIdle
    /\ TokIdle /\ SplIdle

SpecSnap == InitSnap /\ [][NextSnap]_vars

InitTok == TokInit /\ RetryIdle /\ BtcIdle /\ SigIdle /\ PriceIdle /\ SnapIdle
    /\ SplIdle

SpecTok == InitTok /\ [][NextTok]_vars

InitSpl == SplInit /\ RetryIdle /\ BtcIdle /\ SigIdle /\ PriceIdle /\ SnapIdle
    /\ TokIdle

SpecSpl == InitSpl /\ [][NextSpl]_vars

\* Any one of them: a run of the program is a run of one subsystem.
Init ==
    InitRetry \/ InitBtc \/ InitSig \/ InitPrice \/ InitSnap \/ InitTok \/ InitSpl

Next ==
    NextRetry \/ NextBtc \/ NextSig \/ NextPrice \/ NextSnap \/ NextTok \/ NextSpl

Spec == Init /\ [][Next]_vars

(***************************************************************************)
(* Properties of request_with_retry (SpecRetry).                           *)
(***************************************************************************)
RetryTerminal == r_pc \in {"returned", "raised", "exhausted"}

\* A retryable failure, as the retry policy names it: connection error,
\* timeout, chunked-transfer error, or HTTP 429/500/502/503/504.
RetryableFailure(o) ==
    \/ o.kind \in {"ConnectionError", "Timeout", "ChunkedEncodingError"}
    \/ o.kind = "HTTPError" /\ o.status \in {429, 500, 502, 503, 504}

\* The server fails the first k requests retryably and answers request k+1.
FailsThenSucceeds(k) ==
    /\ \A i \in 1..k : RetryableFailure(script[i])
    /\ script[k + 1].kind = "ok"

\* C3: if the first k attempts (0 <= k <= 4) each fail with a retryable
\* failure and attempt k+1 succeeds, the call ends by returning the response
\* of attempt k+1 after exactly k+1 requests (and never issues more on the way).
C3_RetryThenSuccess ==
    \A k \in 0..(MAX_RETRIES - 1) :
        FailsThenSucceeds(k) =>
            /\ calls <= k + 1
            /\ RetryTerminal => (r_pc = "returned" /\ r_ret = k + 1 /\ calls = k + 1)

\* C3 witness: HTTP 503 three times, then success: returned after 4 calls.
C3_Witness ==
    /\ \A i \in 1..3 : script[i] = [kind |-> "HTTPError", status |-> 503]
    /\ script[4].kind = "ok"
    /\ r_pc = "returned" /\ calls = 4 /\ r_ret = 4

\* The first request answered with an HTTP error status outside the retry
\* set, every earlier one having failed retryably (0 if there is none).
FirstFatalStatus ==
    LET F == {i \in 1..MAX_RETRIES :
                /\ script[i].kind = "HTTPError"
                /\ script[i].status \notin {429, 500, 502, 503, 504}
                /\ \A j \in 1..(i - 1) : RetryableFailure(script[j])}
    IN IF F = {} THEN 0 ELSE CHOOSE i \in F : TRUE

\* C4: an HTTP error status outside {429,500,502,503,504} is never retried:
\* it is raised at the attempt where it occurs, no request and no backoff
\* sleep follows it; on the first attempt that is exactly 1 request.
C4_FatalStatusNotRetried ==
    FirstFatalStatus # 0 =>
        /\ calls <= FirstFatalStatus
        /\ calls = FirstFatalStatus =>
              /\ r_pc = "raised" /\ r_err = script[FirstFatalStatus]
              /\ sleeps = FirstFatalStatus - 1
              /\ r_ret = 0
        /\ RetryTerminal => calls = FirstFatalStatus

\* C4 witness: HTTP 404 on the first attempt: raised after exactly 1 call.
C4_Witness ==
    /\ script[1] = [kind |-> "HTTPError", status |-> 404]
    /\ r_pc = "raised" /\ calls = 1 /\ sleeps = 0

\* C5: never more than MAX_RETRIES requests; when all five attempts fail
\* retryably the call ends in the RuntimeError whose cause is the fifth
\* failure, returning nothing; a backoff sleep happens only between two
\* attempts (one fewer sleeps than requests once the call has ended).
C5_BoundedAttempts ==
    /\ calls <= MAX_RETRIES
    /\ sleeps <= calls
    /\ RetryTerminal => sleeps = calls - 1
    /\ (RetryTerminal /\ \A i \in 1..MAX_RETRIES : RetryableFailure(script[i])) =>
          /\ r_pc = "exhausted" /\ r_err.kind = "RuntimeError"
          /\ last_exc = script[MAX_RETRIES]
          /\ r_ret = 0 /\ calls = MAX_RETRIES /\ sleeps = MAX_RETRIES - 1
    /\ r_pc = "exhausted" => \A i \in 1..MAX_RETRIES : RetryableFailure(script[i])

\* C5 witness: five retryable failures of different kinds, the last a timeout.
C5_Witness ==
    /\ r_pc = "exhausted" /\ calls = 5 /\ sleeps = 4
    /\ script[1].kind = "HTTPError" /\ script[5].kind = "Timeout"
    /\ last_exc.kind = "Timeout"
    /\ backoff \in {Backoff(4, 0), Backoff(4, JITTER_SECONDS)}

(***************************************************************************)
(* Properties of btc_balance_at_timestamp (SpecBtc).                       *)
(***************************************************************************)
\* The outputs of the tracked address that the replayed transactions spend.
SpentKeys(txs) ==
    UNION { {<<txs[i].vin[j].txid, txs[i].vin[j].vout>> :
                j \in {n \in 1..Len(txs[i].vin) : txs[i].vin[n].addr = Address}} :
            i \in 1..Len(txs) }

\* C1: after the replay of the transactions confirmed at or before the cutoff,
\* no output that a replayed transaction spends is still unspent, and the
\* balance returned is the sum of the unspent values and is >= 0; for every
\* history, also when a spend and the output it spends share a block time.
C1_NoSpentUtxoUnspent ==
    b_pc = "done" =>
        /\ SpentKeys(eligible) \cap DOMAIN utxos = {}
        /\ b_ret = SumValues(utxos)
        /\ b_ret >= 0

\* A transaction counts for a cutoff: confirmed, with a block time <= cutoff.
CountsAt(tx, cutoff) ==
    tx.confirmed /\ tx.block_time # None /\ tx.block_time <= cutoff

Tx(id) == CHOOSE tx \in TxPool : tx.txid = id

\* C2: the balance depends only on the transactions that are confirmed with a
\* block_time <= cutoff: it is the balance of the history with every other
\* transaction removed, every unspent output was created by a transaction that
\* counts, and every replayed transaction counts. A lone receipt of 500 at time
\* 100 gives 500 at cutoff 100 and 0 at cutoff 99; with t1 (500 at 100) and t2
\* (spends it, 200 change at 200) the balance is 500 for a cutoff in [100,199]
\* and 200 from 200 on.
C2_OnlyConfirmedUpToCutoff ==
    b_pc = "done" =>
        LET counted == SelectSeq(all_txs, LAMBDA tx : CountsAt(tx, ts_cutoff))
        IN /\ b_ret = SumValues(Replay(EmptyUtxos, StableSort(counted), 1))
           /\ \A i \in 1..Len(eligible) : CountsAt(eligible[i], ts_cutoff)
           /\ \A i \in 1..Len(counted) :
                 \E j \in 1..Len(eligible) : eligible[j] = counted[i]
           /\ \A k \in DOMAIN utxos : CountsAt(Tx(k[1]), ts_cutoff)
           /\ all_txs = <<Tx("t1")>> =>
                 b_ret = (IF ts_cutoff >= 100 THEN 500 ELSE 0)
           /\ all_txs \in {<<Tx("t2"), Tx("t1")>>, <<Tx("t1"), Tx("t2")>>} =>
                 b_ret = (IF ts_cutoff >= 200 THEN 200
                          ELSE IF ts_cutoff >= 100 THEN 500 ELSE 0)

\* C2 witness: the unconfirmed t5 and the block_time-less t6 were fetched with
\* t2 and t1, the cutoff lies between the two confirmations: balance 500.
C2_Witness ==
    /\ b_pc = "done" /\ ts_cutoff = 199
    /\ all_txs = <<Tx("t5"), Tx("t6"), Tx("t2"), Tx("t1")>>
    /\ b_ret = 500

(***************************************************************************)
(* Properties of the pagination loops.                                     *)
(***************************************************************************)
\* The page loop of btc_balance_at_timestamp ends for every stream of pages
\* (FairSpecBtc): range(max_pages) bounds it.
BtcFetchTerminates == <>(b_pc \in {"done", "failed"})

\* C6: the signature-history loop of find_last_signature_before_ts finishes
\* after finitely many page requests for every stream of server responses
\* (FairSpecSigAny), as the page loop of btc_balance_at_timestamp does.
C6_SignatureSearchTerminates == <>(s_pc \in {"returned", "failed"})

(***************************************************************************)
(* Properties of find_last_signature_before_ts (SpecSig).                  *)
(***************************************************************************)
\* A signature confirmed at or before the cutoff.
ConfirmedBy(e, cutoff) == e.blockTime # None /\ e.blockTime <= cutoff

\* The position of the first such entry of the history, 0 if there is none.
FirstConfirmed ==
    LET M == {i \in 1..Len(history) : ConfirmedBy(history[i], ts_unix)}
    IN IF M = {} THEN 0 ELSE CHOOSE i \in M : \A j \in M : i <= j

\* The history is ordered newest-first (entries without blockTime aside).
NewestFirst ==
    \A i, j \in 1..Len(history) :
        (i < j /\ history[i].blockTime # None /\ history[j].blockTime # None)
            => history[i].blockTime >= history[j].blockTime

\* Number of pages of PageLimit entries that hold the first n entries.
PagesFor(n) == (n + PageLimit - 1) \div PageLimit

\* The last entry of the n-th page of the history.
LastOfPage(n) ==
    history[IF n * PageLimit <= Len(history) THEN n * PageLimit ELSE Len(history)]

\* C7: the search pages backward from the newest signature, each request after
\* the first carrying the last signature of the page before it as `before`;
\* it returns the first signature met whose blockTime is present and <= cutoff
\* and requests nothing after the page that holds it; entries without
\* blockTime are skipped; it returns None exactly when an empty page arrives
\* before any such signature. On a newest-first history the result is the
\* most recent signature confirmed at or before the cutoff.
C7_FirstSignatureAtOrBeforeCutoff ==
    /\ \A n \in 1..Len(s_log) :
          s_log[n] = (IF n = 1 THEN NoSig ELSE LastOfPage(n - 1).signature)
    /\ s_pc = "returned" =>
          /\ s_ret = (IF FirstConfirmed = 0 THEN NoSig
                      ELSE history[FirstConfirmed].signature)
          /\ FirstConfirmed # 0 => Len(s_log) = PagesFor(FirstConfirmed)
          /\ FirstConfirmed = 0 => (sigs = <<>> /\ Len(s_log) = PagesFor(Len(history)) + 1)
          /\ (s_ret = NoSig) <=> (sigs = <<>>)
          /\ (NewestFirst /\ s_ret # NoSig) =>
                \A i \in 1..Len(history) :
                    ConfirmedBy(history[i], ts_unix)
                        => history[i].blockTime <= history[s_ret].blockTime

\* C7 witness: three signatures newest-first, the newest after the cutoff, the
\* second without blockTime, the third at the cutoff: found on the second page.
C7_Witness ==
    /\ s_pc = "returned" /\ ts_unix = 2 /\ Len(history) = 3
    /\ history[1].blockTime = 3 /\ history[2].blockTime = None
    /\ history[3].blockTime = 2
    /\ s_ret = 3 /\ s_log = <<NoSig, 2>>

(***************************************************************************)
(* Properties of the price oracles (SpecPrice).                            *)
(***************************************************************************)
\* The points the primary source returned for the day (in any of the shapes).
ReturnedPoints == IF p_resp.kind = "json" THEN p_resp.points ELSE <<>>

\* The age of a point: a point without timestamp is older than any other.
PointTime(pt) == IF pt.timestamp = None THEN 0 ELSE pt.timestamp

\* The values of the points with the maximum timestamp.
LatestValues ==
    {ReturnedPoints[i].value :
        i \in {n \in 1..Len(ReturnedPoints) :
                  \A j \in 1..Len(ReturnedPoints) :
                      PointTime(ReturnedPoints[j]) <= PointTime(ReturnedPoints[n])}}

\* C8: in every variant (btc, eth, sol), when the primary source returns one
\* or more price points for the day, the rate returned is the value of a point
\* with the maximum timestamp, whatever the order of the points; a point
\* without timestamp is never preferred to one that has one.
C8_LatestPointWins ==
    (p_pc = "done" /\ ReturnedPoints # <<>>) =>
        LET got == IF p_variant = "sol" THEN p_raw ELSE p_out
        IN got.kind = "rate" /\ got.rate \in LatestValues

\* C9: when the price source yields zero price points for a designated
\* stablecoin symbol such as "USDC", the oracle of each variant returns the
\* rate 1.0 and does not fail.
C9_StablecoinFallback ==
    (p_pc = "done" /\ p_symbol \in {"USDC", "USDT"}
       /\ p_resp.kind = "json" /\ ReturnedPoints = <<>>) =>
        p_out = Rate(100)

(***************************************************************************)
(* Properties of the snapshot assemblers (SpecSnap).                       *)
(***************************************************************************)
\* C10: when no price is available for a non-stablecoin symbol, the Bitcoin
\* and Ethereum snapshots fail with an error and produce no row; the Solana
\* snapshot does not fail for it: it goes on with rate 0 for native SOL and
\* USD value 0.0 for a token, and returns its tuple (unless an RPC call fails).
C10_MissingPricePolicy ==
    /\ (n_chain = "btc" /\ n_offer["BTC"] = "no") =>
          (n_pc = "done" /\ n_out = "error" /\ n_val["BTC"] = None)
    /\ (n_chain = "eth" /\ n_offer["ETH"] = "no") =>
          (n_pc = "done" /\ n_out = "error" /\ \A a \in Assets : n_val[a] = None)
    /\ n_chain = "sol" =>
          /\ n_err # "price"
          /\ n_offer["SOL"] = "no" => (n_rate["SOL"] = 0 /\ n_val["SOL"] = 0)
          /\ n_offer["JITOSOL"] = "no" => n_val["JITOSOL"] = 0
          /\ (n_pc = "done" /\ n_err = "-") =>
                (n_out = "row" /\ \A a \in {"SOL", "USDC", "USDT", "USX", "JITOSOL"} :
                                     n_val[a] # None)

\* C10 witness: a Solana snapshot that found prices neither for SOL nor for
\* JITOSOL (a wallet holding both) has returned its tuple.
C10_Witness ==
    /\ n_chain = "sol" /\ n_pc = "done" /\ n_out = "row"
    /\ n_offer["SOL"] = "no" /\ n_amt["SOL"] = 5 /\ n_val["SOL"] = 0
    /\ n_offer["JITOSOL"] = "no" /\ n_amt["JITOSOL"] = 2 /\ n_val["JITOSOL"] = 0

(***************************************************************************)
(* Properties of token_usd_value.                                          *)
(***************************************************************************)
\* The wallet's token accounts of one mint, in the order reported.
AccountsOf(items, mint) ==
    LET OfMint(item) == item.mint = mint
        own == SelectSeq(items, OfMint)
    IN [i \in 1..Len(own) |-> own[i].pubkey]

\* C11: for a tracked mint, the amount valued is the sum, over all of the
\* wallet's token accounts of that mint, of the balances
\* spl_balance_at_ts_via_last_tx could derive (None adds nothing); with no
\* token account for the mint, or no account yielding a balance, the value
\* is 0.0, no error is raised and no price lookup is made.
C11_TokenAmountIsSumOverAccounts ==
    LET accts == AccountsOf(t_items, MintOf[t_label])
    IN /\ (t_pc = "done" /\ accts = <<>> => ~t_err)
       /\ (t_pc = "done" /\ ~t_err =>
            /\ token_accounts = accts
            /\ Len(t_bals) = Len(accts)
            /\ IF accts = <<>> \/ ~FoundAny(t_bals)
               THEN t_ret = 0 /\ t_px = NotLooked
               ELSE /\ t_px # NotLooked
                    /\ total = TotalOf(t_bals)
                    /\ t_ret = IF t_px.kind = "rate"
                               THEN TotalOf(t_bals) * t_px.rate ELSE 0)

\* Three token accounts of the mint, the middle one without a derivable
\* balance: 2 + 2 units valued at 150.
C11_Witness ==
    /\ t_pc = "done" /\ ~t_err
    /\ t_bals = <<2, None, 2>>
    /\ t_px = Rate(150) /\ t_ret = 600

(***************************************************************************)
(* Properties of eth_snapshot_with_usd.                                    *)
(***************************************************************************)
IsRead(q) == q.kind \in {"eth_getBalance", "eth_call"}

KindsOf(reqs) == [i \in 1..Len(reqs) |-> reqs[i].kind]

\* C12: the block number is resolved from the cutoff before any balance is
\* read, and the native read and the three balanceOf reads are issued at
\* that one block; a failed resolution (ETHERSCAN_KEY missing, or a
\* response that is not a success) is fatal: no balance read, no price
\* lookup, no row; with the key missing no request is issued at all.
C12_EthReadsAtResolvedBlock ==
    n_chain = "eth" =>
        /\ \A i \in 1..Len(n_reqs) :
              IsRead(n_reqs[i]) =>
                  /\ i > 1 /\ n_reqs[1].kind = "getblocknobytime"
                  /\ n_block # None /\ n_reqs[i].block = n_block
        /\ (n_out = "row" =>
              KindsOf(n_reqs) = <<"getblocknobytime", "eth_getBalance",
                                  "eth_call", "eth_call", "eth_call">>)
        /\ (n_pc = "done" /\ n_block = None => n_err \in {"config", "block"})
        /\ (n_err \in {"config", "block"} =>
              /\ n_out = "error" /\ n_block = None
              /\ \A i \in 1..Len(n_reqs) : ~IsRead(n_reqs[i])
              /\ n_amt = NoneOf /\ n_offer = NotAsked /\ n_val = NoneOf)
        /\ (~n_key => n_reqs = <<>>)
        /\ (~n_key /\ n_pc = "done" => n_err = "config")

\* A row produced after the block resolved to 8 and the four reads.
C12_Witness ==
    /\ n_chain = "eth" /\ n_out = "row" /\ n_block = 8
    /\ Len(n_reqs) = 5 /\ n_reqs[5] = Req("eth_call", 8)

(***************************************************************************)
(* Properties of the history fetch of btc_balance_at_timestamp.            *)
(***************************************************************************)
\* The transactions of the pages answered so far, in order.
RECURSIVE FetchedTxids(_)
FetchedTxids(reqs) ==
    IF reqs = <<>> THEN <<>> ELSE reqs[1].txids \o FetchedTxids(Tail(reqs))

\* C13: at most max_pages page requests; the first carries no cursor, each
\* later one the txid of the last transaction of the page before it;
\* fetching stops at the first empty page; at the cap without an empty page
\* a balance is still returned, from the transactions fetched so far, and
\* no error is raised; a failed page request is fatal and no balance is
\* returned.
C13_BoundedCursorPaging ==
    /\ Len(b_reqs) <= MaxPages
    /\ \A i \in 1..Len(b_reqs) :
          IF i = 1
          THEN b_reqs[i].path = <<"txs">>
          ELSE /\ b_reqs[i - 1].answer = "page"
               /\ b_reqs[i].path =
                     <<"txs", "chain", b_reqs[i - 1].txids[Len(b_reqs[i - 1].txids)]>>
    /\ (b_pc = "fetch" => Len(b_reqs) < MaxPages)
    /\ (b_pc \in {"replay", "done"} =>
          /\ \/ b_reqs[Len(b_reqs)].answer = "empty"
             \/ Len(b_reqs) = MaxPages /\ b_reqs[Len(b_reqs)].answer = "page"
          /\ TxidsOf(all_txs) = FetchedTxids(b_reqs))
    /\ (b_pc = "done" => b_ret # None)
    /\ (b_pc = "failed" <=> (b_reqs # <<>> /\ b_reqs[Len(b_reqs)].answer = "error"))
    /\ (b_pc = "failed" => b_ret = None)

\* The cap reached on full pages: a balance comes back all the same.
C13_Witness ==
    /\ b_pc = "done" /\ b_ret # None
    /\ Len(b_reqs) = MaxPages
    /\ \A i \in 1..Len(b_reqs) : b_reqs[i].answer = "page"
    /\ Len(b_reqs[1].txids) = 2

(***************************************************************************)
(* Properties of spl_balance_at_ts_via_last_tx.                            *)
(***************************************************************************)
\* An entry of the target mint that points at the token account and carries
\* a raw amount and decimals.
IsOwnEntry(e) ==
    /\ e.mint = TargetMint
    /\ PointsAt(e, Pubkeys, TokenAccount)
    /\ e.amount # None /\ e.decimals # None

\* The decoded amount of the first such entry of a list, None without one.
FirstOwn(entries) ==
    IF \E i \in 1..Len(entries) : IsOwnEntry(entries[i])
    THEN LET k == CHOOSE i \in 1..Len(entries) :
                     /\ IsOwnEntry(entries[i])
                     /\ \A j \in 1..(i - 1) : ~IsOwnEntry(entries[j])
         IN entries[k].amount \div Pow10(entries[k].decimals)
    ELSE None

\* C14: the balance is that of the first post-balance entry of the target
\* mint whose accountIndex points at the token account; the pre-balances
\* list is consulted only if the post-balances list is absent, so a
\* transaction with a post-balances list that has no entry for the token
\* account never yields the pre-transaction amount.
C14_PreBalancesOnlyIfPostAbsent ==
    x_pc = "done" /\ x_sig # NoSig /\ x_tx.found =>
        x_ret = IF x_tx.post.present
                THEN FirstOwn(x_tx.post.entries)
                ELSE FirstOwn(x_tx.pre.entries)

====
